---- MODULE Spec2Model ----
(***************************************************************************)
(* Model of linz_traffic_scraper.py: the fetch / normalize / partition /   *)
(* persist pipeline of LinzTrafficScraper.                                 *)
(*                                                                         *)
(* Text is modelled as a sequence of one-character strings, so that the    *)
(* string operations of the source (strip, split, replace, the csv reader  *)
(* and writer) are computed and not assumed.                               *)
(***************************************************************************)
EXTENDS Integers, Sequences, FiniteSets, TLC

(***************************************************************************)
(* Bounds of the enumerated inputs.                                        *)
(***************************************************************************)
MaxTextLen == 5
MaxDatumLen == 5
MaxRecords == 3
MaxRows == 2
MaxValLen == 1

(***************************************************************************)
(* Text helpers.                                                           *)
(***************************************************************************)
\* all sequences over alphabet A of length at most n
StringsUpTo(A, n) == UNION {[1..k -> A] : k \in 0..n}

\* characters removed by str.strip()
Whitespace == {" ", "\n", "\r", "\t"}

RECURSIVE lstrip(_)
lstrip(s) == IF s # <<>> /\ Head(s) \in Whitespace THEN lstrip(Tail(s)) ELSE s

RECURSIVE rstrip(_)
rstrip(s) ==
    IF s # <<>> /\ s[Len(s)] \in Whitespace
    THEN rstrip(SubSeq(s, 1, Len(s) - 1))
    ELSE s

\* str.strip()
strip(s) == rstrip(lstrip(s))

\* c in s
Contains(s, c) == \E i \in 1..Len(s) : s[i] = c

\* s.split(sep) for a one-character separator: always at least one part
RECURSIVE SplitFrom(_, _, _, _)
SplitFrom(s, sep, i, cur) ==
    IF i > Len(s) THEN <<cur>>
    ELSE IF s[i] = sep THEN <<cur>> \o SplitFrom(s, sep, i + 1, <<>>)
    ELSE SplitFrom(s, sep, i + 1, Append(cur, s[i]))

split(s, sep) == SplitFrom(s, sep, 1, <<>>)

\* s.replace(old, new) for one-character old and new
replace(s, old, new) == [i \in 1..Len(s) |-> IF s[i] = old THEN new ELSE s[i]]

(***************************************************************************)
(* csv.reader(io.StringIO(text), delimiter=',', quotechar='"'): the state  *)
(* machine of the reader, fed one character at a time.  "EOL" is the end   *)
(* of line marker the reader processes after every line of its input; the  *)
(* lines of a StringIO end at "\n".                                        *)
(***************************************************************************)
ReaderStart == [st |-> "START_RECORD", field |-> <<>>, row |-> <<>>,
                rows |-> <<>>, err |-> FALSE]

SaveField(p, next) == [p EXCEPT !.row = Append(p.row, p.field),
                                !.field = <<>>, !.st = next]

AddChar(p, c, next) == [p EXCEPT !.field = Append(p.field, c), !.st = next]

AfterLineEnd(c) == IF c = "EOL" THEN "START_RECORD" ELSE "EAT_CRNL"

StartField(p, c) ==
    IF c \in {"\n", "\r", "EOL"} THEN SaveField(p, AfterLineEnd(c))
    ELSE IF c = "\"" THEN [p EXCEPT !.st = "IN_QUOTED_FIELD"]
    ELSE IF c = "," THEN SaveField(p, "START_FIELD")
    ELSE AddChar(p, c, "IN_FIELD")

ProcessChar(p, c) ==
    CASE p.st = "START_RECORD" ->
            IF c = "EOL" THEN p
            ELSE IF c \in {"\n", "\r"} THEN [p EXCEPT !.st = "EAT_CRNL"]
            ELSE StartField(p, c)
      [] p.st = "START_FIELD" -> StartField(p, c)
      [] p.st = "IN_FIELD" ->
            IF c \in {"\n", "\r", "EOL"} THEN SaveField(p, AfterLineEnd(c))
            ELSE IF c = "," THEN SaveField(p, "START_FIELD")
            ELSE AddChar(p, c, "IN_FIELD")
      [] p.st = "IN_QUOTED_FIELD" ->
            IF c = "EOL" THEN p
            ELSE IF c = "\"" THEN [p EXCEPT !.st = "QUOTE_IN_QUOTED_FIELD"]
            ELSE AddChar(p, c, "IN_QUOTED_FIELD")
      [] p.st = "QUOTE_IN_QUOTED_FIELD" ->
            IF c = "\"" THEN AddChar(p, c, "IN_QUOTED_FIELD")
            ELSE IF c = "," THEN SaveField(p, "START_FIELD")
            ELSE IF c \in {"\n", "\r", "EOL"} THEN SaveField(p, AfterLineEnd(c))
            ELSE AddChar(p, c, "IN_FIELD")
      [] p.st = "EAT_CRNL" ->
            IF c \in {"\n", "\r"} THEN p
            ELSE IF c = "EOL" THEN [p EXCEPT !.st = "START_RECORD"]
            ELSE [p EXCEPT !.err = TRUE]

\* a record is returned when the reader is back in START_RECORD at a line end
EndOfLine(p) ==
    LET q == ProcessChar(p, "EOL")
    IN  IF q.err \/ q.st # "START_RECORD" THEN q
        ELSE [q EXCEPT !.rows = Append(q.rows, q.row), !.row = <<>>]

\* end of input inside a record: the pending field is saved and the record
\* returned (the reader is not strict)
EndOfInput(p) ==
    IF p.err \/ p.st = "START_RECORD" THEN p
    ELSE LET q == SaveField(p, "START_RECORD")
         IN  [q EXCEPT !.rows = Append(q.rows, q.row), !.row = <<>>]

RECURSIVE ReadFrom(_, _, _)
ReadFrom(text, i, p) ==
    IF p.err THEN p
    ELSE IF i > Len(text) THEN EndOfInput(p)
    ELSE LET q == ProcessChar(p, text[i])
         IN  IF q.err THEN q
             ELSE IF text[i] = "\n" \/ i = Len(text)
                  THEN ReadFrom(text, i + 1, EndOfLine(q))
                  ELSE ReadFrom(text, i + 1, q)

\* the rows of the text in file order, or an error raised while iterating
csv_reader(text) == ReadFrom(text, 1, ReaderStart)

(***************************************************************************)
(* csv.writer with quoting=csv.QUOTE_ALL: every field is quoted, an        *)
(* embedded quote is doubled, the fields are joined by the delimiter.      *)
(***************************************************************************)
RECURSIVE DoubleQuotes(_)
DoubleQuotes(s) ==
    IF s = <<>> THEN <<>>
    ELSE IF Head(s) = "\"" THEN <<"\"", "\"">> \o DoubleQuotes(Tail(s))
    ELSE <<Head(s)>> \o DoubleQuotes(Tail(s))

\* variant: an embedded quote is written as it is
QuoteField_undoubled(s) == <<"\"">> \o s \o <<"\"">>

QuoteField(s) == <<"\"">> \o DoubleQuotes(s) \o <<"\"">>

RECURSIVE JoinFields(_)
JoinFields(fs) ==
    IF fs = <<>> THEN <<>>
    ELSE IF Len(fs) = 1 THEN QuoteField(fs[1])
    ELSE QuoteField(fs[1]) \o <<",">> \o JoinFields(Tail(fs))

\* csv_writer.writerow(fields)
writerow(fs, lineterminator) == JoinFields(fs) \o lineterminator

(***************************************************************************)
(* Python values: what response.json() decodes to and what the pipeline    *)
(* passes on.  A dict is an insertion-ordered sequence of <<key, value>>   *)
(* pairs with distinct keys; keys and str values are texts.  A run of      *)
(* ordinary characters that no operation looks inside is written as one    *)
(* element ("datum", "2024").                                              *)
(***************************************************************************)
PyNone == [t |-> "none"]
PyStr(s) == [t |-> "str", s |-> s]
PyNum(n) == [t |-> "num", n |-> n]
PyBool(b) == [t |-> "bool", b |-> b]
PyList(e) == [t |-> "list", e |-> e]
PyDict(kv) == [t |-> "dict", kv |-> kv]

\* bool(v), as tested by "if data:" and "if new_token:"
Truthy(v) ==
    CASE v.t = "none" -> FALSE
      [] v.t = "str" -> v.s # <<>>
      [] v.t = "num" -> v.n # 0
      [] v.t = "bool" -> v.b
      [] v.t = "list" -> v.e # <<>>
      [] v.t = "dict" -> v.kv # <<>>

\* isinstance(v, dict) and key in v
HasKey(v, key) == v.t = "dict" /\ \E i \in 1..Len(v.kv) : v.kv[i][1] = key

\* v[key], for a key of the dict
GetKey(v, key) == v.kv[CHOOSE i \in 1..Len(v.kv) : v.kv[i][1] = key][2]

\* d[key] = val on the pair sequence of a dict: an existing key keeps its place
SetKey(kv, key, val) ==
    IF \E i \in 1..Len(kv) : kv[i][1] = key
    THEN [i \in 1..Len(kv) |-> IF kv[i][1] = key THEN <<key, val>> ELSE kv[i]]
    ELSE Append(kv, <<key, val>>)

\* list(d.keys())
Keys(v) == [i \in 1..Len(v.kv) |-> v.kv[i][1]]

\* str(v) as the csv writer renders a cell: None is written as the empty text
CellText(v) ==
    CASE v.t = "str" -> v.s
      [] v.t = "none" -> <<>>
      [] v.t = "num" -> <<ToString(v.n)>>
      [] v.t = "bool" -> IF v.b THEN <<"True">> ELSE <<"False">>
      [] OTHER -> <<"repr">>

K_raw_text == <<"raw_text">>
K_csv_text == <<"csv_text">>
K_unexpected_format == <<"unexpected_format">>
K_raw_data == <<"raw_data">>
K_datum == <<"datum">>
K_pkw == <<"pkw">>

OUTPUT_FORMAT_JSON == "json"
OUTPUT_FORMAT_CSV == "csv"

(***************************************************************************)
(* process_csv_response(csv_text) under output format fmt.                 *)
(***************************************************************************)
StripAll(fs) == [i \in 1..Len(fs) |-> strip(fs[i])]

\* variant: the cells are stored without strip()
RECURSIVE EntryFrom_unstripped(_, _, _, _)
EntryFrom_unstripped(headers, row, i, kv) ==
    IF i > Len(headers) THEN kv
    ELSE EntryFrom_unstripped(headers, row, i + 1,
                              SetKey(kv, headers[i], PyStr(row[i])))

\* {headers[i]: row[i].strip() for i in range(len(headers))}
RECURSIVE EntryFrom(_, _, _, _)
EntryFrom(headers, row, i, kv) ==
    IF i > Len(headers) THEN kv
    ELSE EntryFrom(headers, row, i + 1,
                   SetKey(kv, headers[i], PyStr(strip(row[i]))))

\* the rows the loops over csv_reader keep: non-empty, as wide as the header
KeptRow(row, headers) == row # <<>> /\ Len(row) = Len(headers)

RECURSIVE JsonRecords(_, _)
JsonRecords(rows, headers) ==
    IF rows = <<>> THEN <<>>
    ELSE IF KeptRow(Head(rows), headers)
         THEN <<PyDict(EntryFrom(headers, Head(rows), 1, <<>>))>>
              \o JsonRecords(Tail(rows), headers)
         ELSE JsonRecords(Tail(rows), headers)

RECURSIVE CleanedRows(_, _)
CleanedRows(rows, headers) ==
    IF rows = <<>> THEN <<>>
    ELSE IF KeptRow(Head(rows), headers)
         THEN writerow(Head(rows), <<"\n">>) \o CleanedRows(Tail(rows), headers)
         ELSE CleanedRows(Tail(rows), headers)

RawTextWrapper(text) == PyDict(<< <<K_raw_text, PyStr(text)>> >>)

process_csv_response(csv_text, fmt) ==
    LET text == strip(csv_text)
        r == csv_reader(text)
    IN  IF r.err THEN RawTextWrapper(text)
        ELSE IF r.rows = <<>> THEN RawTextWrapper(text)
        ELSE IF Head(r.rows) = <<>> THEN RawTextWrapper(text)
        ELSE LET headers == StripAll(Head(r.rows))
             IN  IF fmt = OUTPUT_FORMAT_JSON
                 THEN PyList(JsonRecords(Tail(r.rows), headers))
                 ELSE PyDict(<< <<K_csv_text,
                                  PyStr(writerow(headers, <<"\n">>)
                                        \o CleanedRows(Tail(r.rows), headers))>> >>)

(***************************************************************************)
(* process_traffic_data(data, dataset_name).                               *)
(***************************************************************************)
\* variant: the time of day is not dropped
date_key_with_time(date) ==
    IF Contains(date, "/")
    THEN LET date_parts == split(date, "/")
         IN  IF Len(date_parts) = 3
             THEN date_parts[1] \o <<"-">> \o date_parts[2] \o <<"-">>
                  \o date_parts[3]
             ELSE date
    ELSE date

\* variant: the components are re-joined year first
date_key_reordered(date) ==
    LET day == IF Contains(date, " ") THEN split(date, " ")[1] ELSE date
    IN  IF Contains(day, "/")
        THEN LET date_parts == split(day, "/")
             IN  IF Len(date_parts) = 3
                 THEN date_parts[3] \o <<"-">> \o date_parts[1] \o <<"-">>
                      \o date_parts[2]
                 ELSE day
        ELSE day

\* the day-key of a datum text
date_key(date) ==
    LET day == IF Contains(date, " ") THEN split(date, " ")[1] ELSE date
    IN  IF Contains(day, "/")
        THEN LET date_parts == split(day, "/")
             IN  IF Len(date_parts) = 3
                 THEN date_parts[1] \o <<"-">> \o date_parts[2] \o <<"-">>
                      \o date_parts[3]
                 ELSE day
        ELSE day

\* variant: a record is put in front of the records of its day
AppendToDay_prepend(kv, key, record) ==
    IF \E i \in 1..Len(kv) : kv[i][1] = key
    THEN [i \in 1..Len(kv) |->
            IF kv[i][1] = key
            THEN <<key, PyList(<<record>> \o kv[i][2].e)>>
            ELSE kv[i]]
    ELSE Append(kv, <<key, PyList(<<record>>)>>)

\* organized_data[key].append(record), creating the list on first use
AppendToDay(kv, key, record) ==
    IF \E i \in 1..Len(kv) : kv[i][1] = key
    THEN [i \in 1..Len(kv) |->
            IF kv[i][1] = key
            THEN <<key, PyList(Append(kv[i][2].e, record))>>
            ELSE kv[i]]
    ELSE Append(kv, <<key, PyList(<<record>>)>>)

\* variant: an element that is not a mapping is dropped without being counted
OrganizeStep_uncounted(acc, record) ==
    IF record.t # "dict"
    THEN acc
    ELSE IF HasKey(record, K_datum)
    THEN IF GetKey(record, K_datum).t # "str"
         THEN [acc EXCEPT !.skipped = @ + 1]
         ELSE [acc EXCEPT !.kv = AppendToDay(@, date_key(GetKey(record, K_datum).s),
                                             record)]
    ELSE [acc EXCEPT !.skipped = @ + 1]

\* one pass of the loop over the records; acc is organized_data and
\* skipped_records so far.  A datum that is not a str raises in the try
\* block and the record is counted as skipped.
OrganizeStep(acc, record) ==
    IF record.t # "dict"
    THEN [acc EXCEPT !.skipped = @ + 1]
    ELSE IF HasKey(record, K_datum)
    THEN IF GetKey(record, K_datum).t # "str"
         THEN [acc EXCEPT !.skipped = @ + 1]
         ELSE [acc EXCEPT !.kv = AppendToDay(@, date_key(GetKey(record, K_datum).s),
                                             record)]
    ELSE [acc EXCEPT !.skipped = @ + 1]

RECURSIVE Organize(_, _)
Organize(acc, records) ==
    IF records = <<>> THEN acc
    ELSE Organize(OrganizeStep(acc, Head(records)), Tail(records))

\* the returned value and the number of skipped records the call logs
process_traffic_data(data) ==
    IF HasKey(data, K_raw_text) \/ HasKey(data, K_csv_text)
    THEN [result |-> data, skipped |-> 0]
    ELSE IF data.t = "list"
    THEN LET acc == Organize([kv |-> <<>>, skipped |-> 0], data.e)
         IN  [result |-> PyDict(acc.kv), skipped |-> acc.skipped]
    ELSE [result |-> PyDict(<< <<K_unexpected_format, PyBool(TRUE)>>,
                                <<K_raw_data, data>> >>),
          skipped |-> 0]

(***************************************************************************)
(* Files: a function from file name to content.  A content is what         *)
(* json.dump wrote (the value) or the text written.                        *)
(***************************************************************************)
\* datetime.now().strftime("%Y-%m-%d"), the date of the run
Today == <<"2024", "-", "05", "-", "01">>

FileName(dataset_name, stem, ext) == <<dataset_name, "_">> \o stem \o <<".", ext>>

JsonContent(v) == [kind |-> "json", val |-> v]
TextContent(s) == [kind |-> "text", txt |-> s]

\* open(filename, 'w') then the write
WriteFile(fs, filename, content) ==
    [n \in DOMAIN fs \cup {filename} |-> IF n = filename THEN content ELSE fs[n]]

\* f.write(v) inside "with open(...)": a value that is not a str raises after
\* the file was opened, leaving it empty
WriteText(fs, filename, v) ==
    IF v.t = "str" THEN [files |-> WriteFile(fs, filename, TextContent(v.s)), ok |-> TRUE]
    ELSE [files |-> WriteFile(fs, filename, TextContent(<<>>)), ok |-> FALSE]

(***************************************************************************)
(* save_dataset(dataset_name, data); opens says whether open() succeeds.   *)
(* The value is the files after the call and the returned path (or None).  *)
(***************************************************************************)
NoPath == <<>>

save_dataset(fs, dataset_name, data, opens) ==
    IF HasKey(data, K_csv_text)
    THEN LET filename == FileName(dataset_name, Today, "csv")
             w == WriteText(fs, filename, GetKey(data, K_csv_text))
         IN  IF ~opens THEN [files |-> fs, path |-> NoPath]
             ELSE [files |-> w.files, path |-> IF w.ok THEN filename ELSE NoPath]
    ELSE LET filename == FileName(dataset_name, Today, "json")
         IN  IF ~opens THEN [files |-> fs, path |-> NoPath]
             ELSE [files |-> WriteFile(fs, filename, JsonContent(data)),
                   path |-> filename]

(***************************************************************************)
(* save_data_by_day(organized_data, dataset_name) under output format fmt. *)
(* failing is the set of positions, in the order of the writes the call    *)
(* attempts, at which open() raises.  The value is the files after the     *)
(* call and the attempted writes in order, each with its file name and     *)
(* whether it completed.                                                   *)
(***************************************************************************)
\* csv.DictWriter._dict_to_list: a key outside fieldnames raises ValueError,
\* a missing key is written as the empty text
HasExtraKey(record, headers) ==
    \E i \in 1..Len(record.kv) :
        \A j \in 1..Len(headers) : headers[j] # record.kv[i][1]

DictRow(record, headers) ==
    [j \in 1..Len(headers) |->
        IF HasKey(record, headers[j]) THEN CellText(GetKey(record, headers[j]))
        ELSE <<>>]

\* csv_writer.writerows(data): the text written until a record raises
RECURSIVE writerows(_, _)
writerows(data, headers) ==
    IF data = <<>> THEN [txt |-> <<>>, ok |-> TRUE]
    ELSE IF HasExtraKey(Head(data), headers) THEN [txt |-> <<>>, ok |-> FALSE]
    ELSE LET rest == writerows(Tail(data), headers)
         IN  [txt |-> writerow(DictRow(Head(data), headers), <<"\r", "\n">>)
                      \o rest.txt,
              ok |-> rest.ok]

\* the text of a per-day CSV file: writeheader() then writerows(data)
DayCsv(data) ==
    LET headers == Keys(data[1])
        rows == writerows(data, headers)
    IN  [txt |-> writerow(headers, <<"\r", "\n">>) \o rows.txt, ok |-> rows.ok]

Attempt(filename, ok) == [name |-> filename, ok |-> ok]

\* variant: the per-day file is written as JSON whatever the output format
SaveDay_json_only(acc, item, dataset_name, fmt, failing) ==
    LET date_str == replace(item[1], "/", "-")
        data == item[2].e
        pos == Len(acc.attempts) + 1
        filename == FileName(dataset_name, date_str, "json")
    IN  IF pos \in failing
        THEN [acc EXCEPT !.attempts = Append(@, Attempt(filename, FALSE))]
        ELSE [files |-> WriteFile(acc.files, filename, JsonContent(PyList(data))),
              attempts |-> Append(acc.attempts, Attempt(filename, TRUE))]

\* one pass of the loop over organized_data.items()
SaveDay(acc, item, dataset_name, fmt, failing) ==
    LET date_str == replace(item[1], "/", "-")
        data == item[2].e
        pos == Len(acc.attempts) + 1
    IN  IF fmt = OUTPUT_FORMAT_CSV
        THEN LET filename == FileName(dataset_name, date_str, "csv")
             IN  IF data = <<>> THEN acc
                 ELSE IF pos \in failing
                 THEN [acc EXCEPT !.attempts = Append(@, Attempt(filename, FALSE))]
                 ELSE [files |-> WriteFile(acc.files, filename,
                                           TextContent(DayCsv(data).txt)),
                       attempts |-> Append(acc.attempts,
                                           Attempt(filename, DayCsv(data).ok))]
        ELSE LET filename == FileName(dataset_name, date_str, "json")
             IN  IF pos \in failing
                 THEN [acc EXCEPT !.attempts = Append(@, Attempt(filename, FALSE))]
                 ELSE [files |-> WriteFile(acc.files, filename,
                                           JsonContent(PyList(data))),
                       attempts |-> Append(acc.attempts, Attempt(filename, TRUE))]

\* variant: the loop ends at the first write that fails
RECURSIVE SaveDays_abort_on_failure(_, _, _, _, _)
SaveDays_abort_on_failure(acc, items, dataset_name, fmt, failing) ==
    IF items = <<>> THEN acc
    ELSE LET next == SaveDay(acc, Head(items), dataset_name, fmt, failing)
         IN  IF Len(next.attempts) > Len(acc.attempts)
                /\ ~next.attempts[Len(next.attempts)].ok
             THEN next
             ELSE SaveDays_abort_on_failure(next, Tail(items), dataset_name,
                                            fmt, failing)

RECURSIVE SaveDays(_, _, _, _, _)
SaveDays(acc, items, dataset_name, fmt, failing) ==
    IF items = <<>> THEN acc
    ELSE SaveDays(SaveDay(acc, Head(items), dataset_name, fmt, failing),
                  Tail(items), dataset_name, fmt, failing)

save_data_by_day(fs, organized_data, dataset_name, fmt, failing) ==
    IF HasKey(organized_data, K_csv_text)
    THEN [files |-> fs, attempts |-> <<>>]
    ELSE IF HasKey(organized_data, K_raw_text)
    THEN IF fmt = OUTPUT_FORMAT_CSV
         THEN LET filename == FileName(dataset_name, <<"raw", "_">> \o Today, "csv")
                  w == WriteText(fs, filename, GetKey(organized_data, K_raw_text))
              IN  IF 1 \in failing
                  THEN [files |-> fs, attempts |-> <<Attempt(filename, FALSE)>>]
                  ELSE [files |-> w.files, attempts |-> <<Attempt(filename, w.ok)>>]
         ELSE LET filename == FileName(dataset_name, <<"raw", "_">> \o Today, "json")
              IN  IF 1 \in failing
                  THEN [files |-> fs, attempts |-> <<Attempt(filename, FALSE)>>]
                  ELSE [files |-> WriteFile(fs, filename,
                                   JsonContent(GetKey(organized_data, K_raw_text))),
                        attempts |-> <<Attempt(filename, TRUE)>>]
    ELSE IF HasKey(organized_data, K_unexpected_format)
    THEN LET filename == FileName(dataset_name, <<"unexpected", "_">> \o Today, "json")
         IN  IF 1 \in failing
             THEN [files |-> fs, attempts |-> <<Attempt(filename, FALSE)>>]
             ELSE IF HasKey(organized_data, K_raw_data)
             THEN [files |-> WriteFile(fs, filename,
                              JsonContent(GetKey(organized_data, K_raw_data))),
                   attempts |-> <<Attempt(filename, TRUE)>>]
             ELSE [files |-> WriteFile(fs, filename, TextContent(<<>>)),
                   attempts |-> <<Attempt(filename, FALSE)>>]
    ELSE SaveDays([files |-> fs, attempts |-> <<>>], organized_data.kv,
                  dataset_name, fmt, failing)

(***************************************************************************)
(* The run: main() constructs the scraper, obtains a token if none was     *)
(* given and calls fetch_and_save_all_datasets().                          *)
(***************************************************************************)
\* the configured dataset list (replaceable at startup by --datasets); two
\* entries, so that the continuation of the batch loop is visible
DATASETS == <<"ds1", "ds2">>

max_retries == 3

\* variant: the exponent taken before the counter is incremented
wait_time_before_increment(n) == 2 ^ (n - 1)

\* wait_time = 2 ** retry_count
wait_time(n) == 2 ^ n

Rec(datum, pkw) == PyDict(<< <<K_datum, PyStr(datum)>>, <<K_pkw, PyStr(pkw)>> >>)

\* response bodies the data endpoint may send with status 200: either text
\* that response.json() decodes (k = "json", j the decoded value) or text it
\* rejects (k = "text", x the text)
JsonBody(v) == [k |-> "json", j |-> v]
TextBody(x) == [k |-> "text", x |-> x]

Bodies ==
    { JsonBody(PyList(<<Rec(Today \o <<" ", "14:30:00">>, <<"1">>),
                        Rec(<<"2024", "-", "04", "-", "30">>, <<"2">>)>>)),
      JsonBody(PyList(<<Rec(<<"05", "/", "01", "/", "2024">>, <<"3">>)>>)),
      JsonBody(PyList(<<Rec(K_csv_text, <<"4">>)>>)),
      JsonBody(PyList(<<PyDict(<< <<K_pkw, PyStr(<<"5">>)>> >>), PyNum(7)>>)),
      JsonBody(PyList(<<>>)),
      JsonBody(PyDict(<< <<(<<"error">>), PyStr(<<"x">>)>> >>)),
      JsonBody(PyNone),
      JsonBody(PyDict(<<>>)),
      TextBody(<<" ">>),
      TextBody(<<"garbage">>),
      TextBody(<<"datum", ",", "pkw", "\n">> \o Today \o <<" ", "10:00", ",", "6">>) }

\* what one request to the data endpoint can give
Responses ==
    {[r |-> "401"], [r |-> "other"], [r |-> "exc"]}
    \cup {[r |-> "200", body |-> b] : b \in Bodies}

\* what one request to the token endpoint can give: status 200 with an
\* access_token (a text, possibly empty, or null), status 200 without the
\* field, status 200 with a body that does not decode, another status, a
\* transport exception
TokenOutcomes ==
    {[k |-> "token", tok |-> v] : v \in {PyStr(<<"t1">>), PyStr(<<>>), PyNone}}
    \cup {[k |-> "nofield"], [k |-> "badbody"], [k |-> "status"], [k |-> "exc"]}

\* f"Bearer {token}"
Bearer(token) ==
    <<"Bearer", " ">> \o (IF token.t = "str" THEN token.s ELSE <<"None">>)

NoAuthorization == <<>>

\* set_auth_token(token) on the session header and the count of its calls
set_auth_token(session, token) ==
    [session EXCEPT !.Authorization = Bearer(token), !.sets = @ + 1]

\* line 122: the one requests.post of a get_auth_token call, counted
post(session) == [session EXCEPT !.posts = @ + 1]

\* variant: the token is returned without being installed in the session
get_auth_token_not_installed(session, outcome) ==
    IF outcome.k = "token"
    THEN [session |-> post(session), ret |-> outcome.tok]
    ELSE [session |-> post(session), ret |-> PyNone]

\* variant: a failed token request is sent a second time
get_auth_token_retrying(session, outcome) ==
    IF outcome.k = "token"
    THEN [session |-> set_auth_token(post(session), outcome.tok),
          ret |-> outcome.tok]
    ELSE [session |-> post(post(session)), ret |-> PyNone]

\* get_auth_token() against one outcome of the token endpoint: the session
\* after the call and the returned value
get_auth_token(session, outcome) ==
    IF outcome.k = "token"
    THEN [session |-> set_auth_token(post(session), outcome.tok),
          ret |-> outcome.tok]
    ELSE [session |-> post(session), ret |-> PyNone]

\* lines 224-231: the decoded JSON, or the text handed to process_csv_response
ResponsePayload(body, fmt) ==
    IF body.k = "json" THEN body.j ELSE process_csv_response(body.x, fmt)

VARIABLES
    OUTPUT_FORMAT,        \* the output format selected at startup
    session,              \* Authorization header, set_auth_token calls, token requests
    pc,                   \* position of the run
    ds,                   \* index into DATASETS of the dataset being processed
    retry_count,          \* fetch_dataset's retry counter
    fetchLog,             \* requests, token calls and sleeps of the current fetch_dataset call
    data,                 \* value returned by fetch_dataset
    saved,                \* path returned by save_dataset
    organized_data,       \* value returned by process_traffic_data
    attempts,             \* file writes attempted by save_data_by_day
    files,                \* the data directory
    success,              \* fetch_and_save_all_datasets' result flag
    successful_datasets,  \* its counter
    outcomes,             \* how the fetch of each dataset processed so far ended
    calls,                \* the calls the loop body made for the current dataset after its fetch
    saved_paths,          \* the values save_dataset returned during the run
    arg,                  \* input of the function under check (function specifications)
    ret                   \* its result

vars == <<OUTPUT_FORMAT, session, pc, ds, retry_count, fetchLog, data, saved,
          organized_data, attempts, files, success, successful_datasets,
          outcomes, calls, saved_paths, arg, ret>>

runVars == <<OUTPUT_FORMAT, session, ds, retry_count, fetchLog, data, saved,
             organized_data, attempts, files, success, successful_datasets,
             outcomes, calls, saved_paths>>

Unset == PyNone

\* LinzTrafficScraper(token): the token of the command line, if any, is installed
Init ==
    /\ OUTPUT_FORMAT \in {OUTPUT_FORMAT_JSON, OUTPUT_FORMAT_CSV}
    /\ session \in {[Authorization |-> NoAuthorization, sets |-> 0, posts |-> 0],
                    [Authorization |-> Bearer(PyStr(<<"t0">>)), sets |-> 1,
                     posts |-> 0]}
    /\ pc = "main"
    /\ ds = 1
    /\ retry_count = 0
    /\ fetchLog = <<>>
    /\ data = Unset
    /\ saved = NoPath
    /\ organized_data = Unset
    /\ attempts = <<>>
    /\ files = <<>>
    /\ success = FALSE
    /\ successful_datasets = 0
    /\ outcomes = <<>>
    /\ calls = <<>>
    /\ saved_paths = <<>>
    /\ arg = Unset
    /\ ret = Unset

\* main, lines 612-622: without a token, one automatic acquisition; if that
\* fails the user may type a token, which is installed
main ==
    /\ pc = "main"
    /\ pc' = "loop"
    /\ IF session.sets > 0
       THEN session' = session
       ELSE \E outcome \in TokenOutcomes, typed \in BOOLEAN :
              LET got == get_auth_token(session, outcome)
              IN  session' = IF ~Truthy(got.ret) /\ typed
                             THEN set_auth_token(got.session, PyStr(<<"t0">>))
                             ELSE got.session
    /\ UNCHANGED <<OUTPUT_FORMAT, ds, retry_count, fetchLog, data, saved,
                   organized_data, attempts, files, success,
                   successful_datasets, outcomes, calls, saved_paths, arg, ret>>


(***************************************************************************)
(* fetch_dataset(dataset_name): one action per request it makes.           *)
(***************************************************************************)
GetEvent(resp) == [e |-> "get", resp |-> resp]
RegetEvent(resp) == [e |-> "reget", resp |-> resp]
TokenEvent(outcome, value) == [e |-> "token", outcome |-> outcome, value |-> value]
SleepEvent(n) == [e |-> "sleep", n |-> n]

\* the loop header of fetch_and_save_all_datasets and the entry of
\* fetch_dataset: retry_count = 0
BeginFetch ==
    /\ pc = "loop"
    /\ ds <= Len(DATASETS)
    /\ pc' = "get"
    /\ retry_count' = 0
    /\ fetchLog' = <<>>
    /\ data' = Unset
    /\ saved' = NoPath
    /\ organized_data' = Unset
    /\ attempts' = <<>>
    /\ calls' = <<>>
    /\ UNCHANGED <<OUTPUT_FORMAT, session, ds, files, success,
                   successful_datasets, outcomes, saved_paths, arg, ret>>

\* variant: a failure of the request re-issued after a renewal is retried
\* without being counted
AfterFailure_uncounted_after_renewal(logged) ==
    IF logged[Len(logged)].e = "reget"
    THEN /\ retry_count' = retry_count
         /\ fetchLog' = logged
         /\ pc' = "get"
         /\ data' = data
    ELSE /\ retry_count' = retry_count + 1
         /\ IF retry_count + 1 < max_retries
            THEN /\ fetchLog' = Append(logged, SleepEvent(wait_time(retry_count + 1)))
                 /\ pc' = "get"
                 /\ data' = data
            ELSE /\ fetchLog' = logged
                 /\ pc' = "fetched"
                 /\ data' = PyNone

\* lines 211-221 and 233-245: a status other than 200 and a RequestException
\* both count one retry, sleep and loop, or give up at max_retries
AfterFailure(logged) ==
    /\ retry_count' = retry_count + 1
    /\ IF retry_count + 1 < max_retries
       THEN /\ fetchLog' = Append(logged, SleepEvent(wait_time(retry_count + 1)))
            /\ pc' = "get"
            /\ data' = data
       ELSE /\ fetchLog' = logged
            /\ pc' = "fetched"
            /\ data' = PyNone

\* lines 211-231 and 233-245: what follows a response that is not handled
\* by the 401 branch
Answer(resp, logged) ==
    IF resp.r = "200"
    THEN /\ data' = ResponsePayload(resp.body, OUTPUT_FORMAT)
         /\ pc' = "fetched"
         /\ fetchLog' = logged
         /\ retry_count' = retry_count
    ELSE AfterFailure(logged)

\* line 179: the request of one pass of the retry loop
Request ==
    /\ pc = "get"
    /\ retry_count < max_retries
    /\ \E resp \in Responses :
         LET logged == Append(fetchLog, GetEvent(resp))
         IN  IF resp.r = "401"
             THEN /\ pc' = "renew"
                  /\ fetchLog' = logged
                  /\ UNCHANGED <<retry_count, data>>
             ELSE Answer(resp, logged)
    /\ UNCHANGED <<OUTPUT_FORMAT, session, ds, saved, organized_data, attempts,
                   files, success, successful_datasets, outcomes, calls, saved_paths, arg, ret>>

\* lines 189-208: after a 401, one call of get_auth_token; a falsy result
\* ends the fetch
Renew ==
    /\ pc = "renew"
    /\ \E outcome \in TokenOutcomes :
         LET got == get_auth_token(session, outcome)
         IN  /\ session' = got.session
             /\ fetchLog' = Append(fetchLog, TokenEvent(outcome, got.ret))
             /\ IF Truthy(got.ret)
                THEN pc' = "reget" /\ data' = data
                ELSE pc' = "fetched" /\ data' = PyNone
    /\ UNCHANGED <<OUTPUT_FORMAT, ds, retry_count, saved, organized_data,
                   attempts, files, success, successful_datasets, outcomes,
                   calls, saved_paths, arg, ret>>

\* variant: a second 401 is counted and retried like any other status
RetryRequest_counting_401 ==
    /\ pc = "reget"
    /\ \E resp \in Responses :
         Answer(resp, Append(fetchLog, RegetEvent(resp)))
    /\ UNCHANGED <<OUTPUT_FORMAT, session, ds, saved, organized_data, attempts,
                   files, success, successful_datasets, outcomes, calls, saved_paths, arg, ret>>

\* lines 192-198: the request re-issued with the new token; a second 401
\* ends the fetch, any other response is handled as in Request
RetryRequest ==
    /\ pc = "reget"
    /\ \E resp \in Responses :
         LET logged == Append(fetchLog, RegetEvent(resp))
         IN  IF resp.r = "401"
             THEN /\ pc' = "fetched"
                  /\ data' = PyNone
                  /\ fetchLog' = logged
                  /\ UNCHANGED retry_count
             ELSE Answer(resp, logged)
    /\ UNCHANGED <<OUTPUT_FORMAT, session, ds, saved, organized_data, attempts,
                   files, success, successful_datasets, outcomes, calls, saved_paths, arg, ret>>

(***************************************************************************)
(* fetch_and_save_all_datasets(): the body of the loop over DATASETS.      *)
(***************************************************************************)
\* how a finished fetch_dataset call ended, read off its last event
EndOf(log) ==
    LET last == log[Len(log)]
    IN  IF last.e = "token" THEN "renewfail"
        ELSE IF last.resp.r = "200" THEN "200"
        ELSE IF last.e = "reget" /\ last.resp.r = "401" THEN "still401"
        ELSE "retries"

\* variant: a failed fetch ends the batch
TakeResult_abort_on_failure ==
    /\ pc = "fetched"
    /\ outcomes' = Append(outcomes, [dataset |-> DATASETS[ds],
                                     fetched |-> Truthy(data),
                                     returned |-> data.t # "none",
                                     end |-> EndOf(fetchLog)])
    /\ IF Truthy(data)
       THEN /\ successful_datasets' = successful_datasets + 1
            /\ success' = TRUE
            /\ pc' = "save"
       ELSE /\ UNCHANGED <<successful_datasets, success>>
            /\ pc' = "end"
    /\ fetchLog' = <<>>
    /\ retry_count' = 0
    /\ UNCHANGED <<OUTPUT_FORMAT, session, ds, data, saved, organized_data,
                   attempts, files, calls, saved_paths, arg, ret>>

\* lines 518-521 and 528-530: "if data:" on the value fetch_dataset returned
TakeResult ==
    /\ pc = "fetched"
    /\ outcomes' = Append(outcomes, [dataset |-> DATASETS[ds],
                                     fetched |-> Truthy(data),
                                     returned |-> data.t # "none",
                                     end |-> EndOf(fetchLog)])
    /\ IF Truthy(data)
       THEN /\ successful_datasets' = successful_datasets + 1
            /\ success' = TRUE
            /\ pc' = "save"
       ELSE /\ UNCHANGED <<successful_datasets, success>>
            /\ pc' = "pause"
    /\ fetchLog' = <<>>
    /\ retry_count' = 0
    /\ UNCHANGED <<OUTPUT_FORMAT, session, ds, data, saved, organized_data,
                   attempts, files, calls, saved_paths, arg, ret>>

\* variant: a failed full-result write ends the processing of the dataset
SaveDataset_abort_on_failure ==
    /\ pc = "save"
    /\ \E opens \in BOOLEAN :
         LET r == save_dataset(files, DATASETS[ds], data, opens)
         IN  /\ files' = r.files
             /\ saved' = r.path
             /\ pc' = IF r.path = NoPath THEN "pause" ELSE "process"
    /\ calls' = Append(calls, "save_dataset")
    /\ saved_paths' = Append(saved_paths, saved')
    /\ UNCHANGED <<OUTPUT_FORMAT, session, ds, retry_count, fetchLog, data,
                   organized_data, attempts, success, successful_datasets,
                   outcomes, arg, ret>>

\* line 523
SaveDataset ==
    /\ pc = "save"
    /\ \E opens \in BOOLEAN :
         LET r == save_dataset(files, DATASETS[ds], data, opens)
         IN  files' = r.files /\ saved' = r.path
    /\ pc' = "process"
    /\ calls' = Append(calls, "save_dataset")
    /\ saved_paths' = Append(saved_paths, saved')
    /\ UNCHANGED <<OUTPUT_FORMAT, session, ds, retry_count, fetchLog, data,
                   organized_data, attempts, success, successful_datasets,
                   outcomes, arg, ret>>

\* line 526
ProcessTrafficData ==
    /\ pc = "process"
    /\ organized_data' = process_traffic_data(data).result
    /\ pc' = "by_day"
    /\ calls' = Append(calls, "process_traffic_data")
    /\ UNCHANGED <<OUTPUT_FORMAT, session, ds, retry_count, fetchLog, data,
                   saved, attempts, files, success, successful_datasets,
                   outcomes, saved_paths, arg, ret>>

\* line 527; any subset of the writes the call attempts may fail to open
SaveDataByDay ==
    /\ pc = "by_day"
    /\ LET n == Len(save_data_by_day(files, organized_data, DATASETS[ds],
                                     OUTPUT_FORMAT, {}).attempts)
       IN  \E failing \in SUBSET (1..n) :
             LET r == save_data_by_day(files, organized_data, DATASETS[ds],
                                       OUTPUT_FORMAT, failing)
             IN  files' = r.files /\ attempts' = r.attempts
    /\ pc' = "pause"
    /\ calls' = Append(calls, "save_data_by_day")
    /\ UNCHANGED <<OUTPUT_FORMAT, session, ds, retry_count, fetchLog, data,
                   saved, organized_data, success, successful_datasets,
                   outcomes, saved_paths, arg, ret>>

\* line 533: time.sleep(2), then the next dataset
Pause ==
    /\ pc = "pause"
    /\ ds' = ds + 1
    /\ pc' = "loop"
    /\ UNCHANGED <<OUTPUT_FORMAT, session, retry_count, fetchLog, data, saved,
                   organized_data, attempts, files, success,
                   successful_datasets, outcomes, calls, saved_paths, arg, ret>>

\* lines 535-536: return success
Return ==
    /\ pc = "loop"
    /\ ds > Len(DATASETS)
    /\ pc' = "end"
    /\ UNCHANGED <<OUTPUT_FORMAT, session, ds, retry_count, fetchLog, data,
                   saved, organized_data, attempts, files, success,
                   successful_datasets, outcomes, calls, saved_paths, arg, ret>>

Next ==
    \/ main
    \/ BeginFetch
    \/ Request
    \/ Renew
    \/ RetryRequest
    \/ TakeResult
    \/ SaveDataset
    \/ ProcessTrafficData
    \/ SaveDataByDay
    \/ Pause
    \/ Return

Spec == Init /\ [][Next]_vars

(***************************************************************************)
(* The functions of the pipeline on enumerated inputs.  The run is idle:   *)
(* only arg, ret and what the called function writes change.               *)
(***************************************************************************)
RunIdle ==
    /\ session = [Authorization |-> NoAuthorization, sets |-> 0, posts |-> 0]
    /\ ds = 1
    /\ retry_count = 0
    /\ fetchLog = <<>>
    /\ data = Unset
    /\ saved = NoPath
    /\ organized_data = Unset
    /\ attempts = <<>>
    /\ files = <<>>
    /\ success = FALSE
    /\ successful_datasets = 0
    /\ outcomes = <<>>
    /\ calls = <<>>
    /\ saved_paths = <<>>
    /\ ret = Unset

\* all sequences over S of length at most n
ListsUpTo(S, n) == UNION {[1..k -> S] : k \in 0..n}

\* process_csv_response on every text over the characters the reader and
\* strip() distinguish
CsvAlphabet == {"a", ",", "\"", "\n", "\r", " "}

InitCsv ==
    /\ OUTPUT_FORMAT \in {OUTPUT_FORMAT_JSON, OUTPUT_FORMAT_CSV}
    /\ pc = "call"
    /\ arg \in StringsUpTo(CsvAlphabet, MaxTextLen)
    /\ RunIdle

CallProcessCsvResponse ==
    /\ pc = "call"
    /\ ret' = process_csv_response(arg, OUTPUT_FORMAT)
    /\ pc' = "returned"
    /\ UNCHANGED <<arg, runVars>>

NextCsv == CallProcessCsvResponse

SpecCsv == InitCsv /\ [][NextCsv]_vars

\* process_traffic_data and save_data_by_day on lists of sample elements and
\* on single records with every datum text over the characters date_key
\* distinguishes
DatumAlphabet == {"1", "/", " ", "-"}

Elements ==
    { Rec(Today \o <<" ", "14:30:00">>, <<"1">>),
      Rec(Today, <<"2">>),
      Rec(<<"05", "/", "01", "/", "2024">>, <<"3">>),
      Rec(<<"05", "-", "01", "-", "2024">>, <<"4">>),
      Rec(<<"1", "/", "2">>, <<"5">>),
      Rec(<<"1", "-", "2">>, <<"6">>),
      Rec(K_csv_text, <<"7">>),
      PyDict(<< <<K_pkw, PyStr(<<"8">>)>> >>),
      PyDict(<< <<K_datum, PyNone>>, <<K_pkw, PyStr(<<"9">>)>> >>),
      PyNum(7) }

InitPartition ==
    /\ OUTPUT_FORMAT \in {OUTPUT_FORMAT_JSON, OUTPUT_FORMAT_CSV}
    /\ pc = "call"
    /\ arg \in {PyList(l) : l \in ListsUpTo(Elements, MaxRecords)}
           \cup {PyList(<<Rec(d, <<"1">>)>>) :
                    d \in StringsUpTo(DatumAlphabet, MaxDatumLen)}
           \cup {RawTextWrapper(<<"a">>),
                 PyDict(<< <<K_csv_text, PyStr(<<"a">>)>> >>),
                 PyDict(<< <<K_pkw, PyStr(<<"1">>)>> >>)}
    /\ RunIdle

CallProcessTrafficData ==
    /\ pc = "call"
    /\ ret' = process_traffic_data(arg)
    /\ organized_data' = process_traffic_data(arg).result
    /\ pc' = "partitioned"
    /\ UNCHANGED <<OUTPUT_FORMAT, session, ds, retry_count, fetchLog, data,
                   saved, attempts, files, success, successful_datasets,
                   outcomes, calls, saved_paths, arg>>

CallSaveDataByDay ==
    /\ pc = "partitioned"
    /\ LET r == save_data_by_day(files, organized_data, DATASETS[ds],
                                 OUTPUT_FORMAT, {})
       IN  files' = r.files /\ attempts' = r.attempts
    /\ pc' = "saved"
    /\ UNCHANGED <<OUTPUT_FORMAT, session, ds, retry_count, fetchLog, data,
                   saved, organized_data, success, successful_datasets,
                   outcomes, calls, saved_paths, arg, ret>>

NextPartition == CallProcessTrafficData \/ CallSaveDataByDay

SpecPartition == InitPartition /\ [][NextPartition]_vars

\* a day bucket written by the per-day CSV writer and read back by
\* process_csv_response in JSON output mode
ValAlphabet == {"a", " ", ",", "\"", "\n"}

BucketRec(k, v) ==
    PyDict(<< <<K_datum, PyStr(Today \o <<" ", "14:30:00">>)>>, <<k, PyStr(v)>> >>)

InitRoundTrip ==
    /\ OUTPUT_FORMAT = OUTPUT_FORMAT_CSV
    /\ pc = "call"
    /\ \E k \in {K_pkw, <<"k", " ">>} :
         arg \in {PyList(l) :
                    l \in ListsUpTo({BucketRec(k, v) :
                                       v \in StringsUpTo(ValAlphabet, MaxValLen)
                                             \cup {<<"a", "\n", "a">>,
                                                   <<"\"", ",">>,
                                                   <<" ", "a">>}},
                                    MaxRows) \ {<<>>}}
    /\ RunIdle

\* the text of the per-day file is handed to process_csv_response
Reparse ==
    /\ pc = "saved"
    /\ Len(attempts) = 1
    /\ ret' = process_csv_response(files[attempts[1].name].txt, OUTPUT_FORMAT_JSON)
    /\ pc' = "reparsed"
    /\ UNCHANGED <<arg, runVars>>

NextRoundTrip == CallProcessTrafficData \/ CallSaveDataByDay \/ Reparse

SpecRoundTrip == InitRoundTrip /\ [][NextRoundTrip]_vars

(***************************************************************************)
(* Properties of the run.                                                  *)
(***************************************************************************)
EventsOf(log, kinds) == {i \in 1..Len(log) : log[i].e \in kinds}

\* responses of the data requests of a call, in order
IsRequest(ev) == ev.e \in {"get", "reget"}

\* what save_dataset writes for data
FullResult(d) ==
    IF HasKey(d, K_csv_text)
    THEN TextContent(GetKey(d, K_csv_text).s)
    ELSE JsonContent(d)

\* C1: once save_dataset has written the full-result file of a dataset, the
\* file still holds the full unpartitioned result after save_data_by_day
\* has run for that dataset.
C1_FullResultNotReplaced ==
    (pc = "pause" /\ saved # NoPath) => files[saved] = FullResult(data)

\* C2: within one fetch_dataset call get_auth_token is called at most once,
\* at most one data request is re-issued after a renewal, and a call that
\* saw a 401 has called it exactly once when it returns.
C2_OneRenewalPerFetch ==
    /\ Cardinality(EventsOf(fetchLog, {"token"})) <= 1
    /\ Cardinality(EventsOf(fetchLog, {"reget"})) <= 1
    /\ (pc = "fetched" /\ (\E i \in 1..Len(fetchLog) :
                              IsRequest(fetchLog[i]) /\ fetchLog[i].resp.r = "401"))
         => Cardinality(EventsOf(fetchLog, {"token"})) = 1

\* the call has made three requests and each failed with a status other
\* than 200 and 401 or with a transport exception
ThreeFailedAttempts ==
    /\ Cardinality(EventsOf(fetchLog, {"get", "reget"})) >= 3
    /\ \A i \in EventsOf(fetchLog, {"get", "reget", "token"}) :
         /\ fetchLog[i].e = "get"
         /\ fetchLog[i].resp.r \in {"other", "exc"}

\* C3: three failed attempts (status other than 200 and 401, or transport
\* exception, in any mix) make exactly 3 requests, sleep 2 then 4 seconds
\* with no sleep after the third failure, and the call returns None.
C3_ThreeFailuresThenNone ==
    ThreeFailedAttempts =>
        /\ pc = "fetched"
        /\ Cardinality(EventsOf(fetchLog, {"get", "reget"})) = 3
        /\ [i \in 1..Len(fetchLog) |->
              IF fetchLog[i].e = "sleep" THEN fetchLog[i].n ELSE 0]
           = <<0, 2, 0, 4, 0>>
        /\ data = PyNone

C3_Witness ==
    /\ ThreeFailedAttempts
    /\ pc = "fetched"
    /\ \E i, j \in 1..Len(fetchLog) :
         /\ fetchLog[i].e = "get" /\ fetchLog[i].resp.r = "other"
         /\ fetchLog[j].e = "get" /\ fetchLog[j].resp.r = "exc"

\* the call ended with: 401, token endpoint 200 with an access_token, 200
\* on the re-issued request
RenewedThenOk ==
    /\ pc = "fetched"
    /\ Len(fetchLog) >= 3
    /\ LET n == Len(fetchLog)
       IN  /\ fetchLog[n - 2].e = "get" /\ fetchLog[n - 2].resp.r = "401"
           /\ fetchLog[n - 1].e = "token" /\ fetchLog[n - 1].outcome.k = "token"
           /\ fetchLog[n].e = "reget" /\ fetchLog[n].resp.r = "200"

\* C4: after 401, a token endpoint answer 200 with an access_token and 200 on
\* the re-issued request, fetch_dataset returns the payload of that body (the
\* decoded JSON or the normalized text) and the session carries the new token.
C4_RenewedFetchSucceeds ==
    RenewedThenOk =>
        LET n == Len(fetchLog)
        IN  /\ data = (IF fetchLog[n].resp.body.k = "json"
                       THEN fetchLog[n].resp.body.j
                       ELSE process_csv_response(fetchLog[n].resp.body.x,
                                                 OUTPUT_FORMAT))
            /\ session.Authorization
                 = <<"Bearer", " ">> \o fetchLog[n - 1].outcome.tok.s

C4_Witness ==
    /\ RenewedThenOk
    /\ Truthy(data)
    /\ session.sets = 2

\* the step logs the event of a terminal 401 outcome: a renewal that returned
\* a falsy value, or a 401 on the re-issued request
TerminalEvent(ev) ==
    \/ ev.e = "token" /\ ~Truthy(ev.value)
    \/ ev.e = "reget" /\ ev.resp.r = "401"

Terminal401Step ==
    \E i \in (Len(fetchLog) + 1)..Len(fetchLog') : TerminalEvent(fetchLog'[i])

\* C5: a failed renewal after a 401, and a 401 on the re-issued request, end
\* the fetch at once: the call returns None with no further request, no sleep
\* and the retry counter unchanged; the batch loop then saves nothing for the
\* dataset and goes on to the next one.
C5_Terminal401 ==
    [][ /\ Terminal401Step =>
            /\ pc' = "fetched"
            /\ data' = PyNone
            /\ retry_count' = retry_count
            /\ Len(fetchLog') = Len(fetchLog) + 1
        /\ (pc = "fetched" /\ TerminalEvent(fetchLog[Len(fetchLog)])) =>
            /\ pc' = "pause"
            /\ files' = files
            /\ ds' = ds
        /\ pc = "pause" => (pc' = "loop" /\ ds' = ds + 1)
        /\ (pc = "loop" /\ ds <= Len(DATASETS)) => pc' = "get"
      ]_vars

C5_Witness ==
    /\ pc = "get"
    /\ ds = 2
    /\ outcomes[1].end \in {"renewfail", "still401"}
    /\ ~outcomes[1].fetched

(***************************************************************************)
(* Properties of the functions.                                            *)
(***************************************************************************)
\* C6: process_csv_response never returns an empty record list: text that is
\* empty, or from which no data row can be parsed, gives the raw-text wrapper.
C6_NeverEmptyRecordList ==
    pc = "returned" =>
        /\ ret # PyList(<<>>)
        /\ strip(arg) = <<>> => ret = RawTextWrapper(<<>>)

\* an element process_traffic_data skips: not a mapping, no datum, or a datum
\* on which the key derivation raises
Skippable(x) ==
    \/ x.t # "dict"
    \/ \A i \in 1..Len(x.kv) : x.kv[i][1] # K_datum
    \/ \E i \in 1..Len(x.kv) : x.kv[i][1] = K_datum /\ x.kv[i][2].t # "str"

Occurrences(seq, x) == Cardinality({i \in 1..Len(seq) : seq[i] = x})

RECURSIVE SumOver(_, _)
SumOver(f, S) ==
    IF S = {} THEN 0
    ELSE LET i == CHOOSE i \in S : TRUE IN f[i] + SumOver(f, S \ {i})

\* C7: the bucket sizes of process_traffic_data's result sum to the length of
\* the input list minus the skipped elements; each element is in exactly one
\* bucket or is counted as skipped exactly once.
C7_BucketsPlusSkipped ==
    (pc # "call" /\ arg.t = "list") =>
        LET kv == ret.result.kv
            nSkip == Cardinality({i \in 1..Len(arg.e) : Skippable(arg.e[i])})
            sizes == [b \in 1..Len(kv) |-> Len(kv[b][2].e)]
        IN  /\ ret.skipped = nSkip
            /\ SumOver(sizes, 1..Len(kv)) = Len(arg.e) - nSkip
            /\ \A i \in 1..Len(arg.e) :
                 LET x == arg.e[i]
                     placed == [b \in 1..Len(kv) |-> Occurrences(kv[b][2].e, x)]
                 IN  SumOver(placed, 1..Len(kv))
                       = IF Skippable(x) THEN 0 ELSE Occurrences(arg.e, x)

C7_Witness ==
    /\ pc = "partitioned"
    /\ arg.t = "list"
    /\ Len(arg.e) = 3
    /\ ret.skipped = 1
    /\ Len(ret.result.kv) = 2

\* the day-key of a datum text as the specification words it: the text before
\* the first space, with "/" turned into "-" when the date has exactly three
\* "/"-separated components
FirstSpace(s) ==
    IF \E i \in 1..Len(s) : s[i] = " "
    THEN CHOOSE i \in 1..Len(s) : s[i] = " " /\ \A j \in 1..(i - 1) : s[j] # " "
    ELSE Len(s) + 1

DatePortion(s) == SubSeq(s, 1, FirstSpace(s) - 1)

SlashCount(s) == Cardinality({i \in 1..Len(s) : s[i] = "/"})

DayKeyOf(s) ==
    IF SlashCount(DatePortion(s)) = 2
    THEN [i \in 1..Len(DatePortion(s)) |->
            IF DatePortion(s)[i] = "/" THEN "-" ELSE DatePortion(s)[i]]
    ELSE DatePortion(s)

OneDatum == pc # "call" /\ arg.t = "list" /\ Len(arg.e) = 1 /\ ~Skippable(arg.e[1])

\* C9 as stated: without "/" the day-key is the text before the first space;
\* with "/" in the date part the components are re-joined with "-", so that
\* no day-key contains "/".
C9_NoSlashInDayKey ==
    OneDatum =>
        LET day == DatePortion(GetKey(arg.e[1], K_datum).s)
            key == ret.result.kv[1][1]
        IN  /\ key = [i \in 1..Len(day) |-> IF day[i] = "/" THEN "-" ELSE day[i]]
            /\ \A i \in 1..Len(key) : key[i] # "/"

\* C9 amended: the day-key is the text before the first space; its "/" are
\* turned into "-", in the same order, exactly when the date part has three
\* "/"-separated components, and otherwise the date part is the key
\* unchanged, "/" included.  "2024-05-01 14:30:00" gives "2024-05-01" and
\* "05/01/2024" gives "05-01-2024".
C9_DayKeyDerivation ==
    OneDatum =>
        LET datum == GetKey(arg.e[1], K_datum).s
            key == ret.result.kv[1][1]
        IN  /\ Len(ret.result.kv) = 1
            /\ key = DayKeyOf(datum)
            /\ (\E i \in 1..Len(key) : key[i] = "/")
                 <=> SlashCount(DatePortion(datum)) \notin {0, 2}
            /\ datum = <<"2024", "-", "05", "-", "01", " ", "14:30:00">>
                 => key = <<"2024", "-", "05", "-", "01">>
            /\ datum = <<"05", "/", "01", "/", "2024">>
                 => key = <<"05", "-", "01", "-", "2024">>

C9_Witness ==
    /\ OneDatum
    /\ GetKey(arg.e[1], K_datum).s = <<"05", "/", "01", "/", "2024">>
    /\ ret.result.kv[1][1] = <<"05", "-", "01", "-", "2024">>

\* C10 as stated: a day bucket written by the per-day CSV writer and parsed
\* back by process_csv_response in JSON output mode is the original bucket.
C10_RoundTrip ==
    pc = "reparsed" => ret = arg

\* no field name and no value of the bucket starts or ends with whitespace
Trimmed(bucket) ==
    \A i \in 1..Len(bucket.e) : \A j \in 1..Len(bucket.e[i].kv) :
        /\ strip(bucket.e[i].kv[j][1]) = bucket.e[i].kv[j][1]
        /\ strip(bucket.e[i].kv[j][2].s) = bucket.e[i].kv[j][2].s

\* C10 amended: the round trip gives back the bucket, record for record and
\* field for field, when no field name and no value starts or ends with
\* whitespace.
C10_RoundTripTrimmed ==
    (pc = "reparsed" /\ Trimmed(arg)) => ret = arg

C10_Witness ==
    /\ pc = "reparsed"
    /\ Trimmed(arg)
    /\ Len(arg.e) = 2
    /\ GetKey(arg.e[1], K_pkw).s = <<"\"", ",">>
    /\ GetKey(arg.e[2], K_pkw).s = <<"a", "\n", "a">>
    /\ ret = arg

(***************************************************************************)
(* Claims about the batch loop.                                            *)
(***************************************************************************)
\* dataset i's fetch ended with a 200 response and returned a payload
FetchSucceeded(i) == outcomes[i].end = "200" /\ outcomes[i].returned

\* C11: fetch_and_save_all_datasets returns true if and only if the fetch of
\* at least one dataset ended with a 200 response and returned a payload,
\* whatever the payload (an empty array included)
C11_SuccessIffSomeFetch ==
    pc = "end" => (success <=> \E i \in 1..Len(outcomes) : FetchSucceeded(i))

\* fetch_dataset ended in a failure: retries exhausted, a terminal 401 or a
\* failed renewal
FetchFailed(i) == outcomes[i].end \in {"retries", "still401", "renewfail"}

\* C12: the fetches made so far are those of the first datasets of DATASETS,
\* one each and in list order, whatever their results; the run ends only
\* after every dataset was fetched, and a dataset whose fetch gave a truthy
\* payload is processed also after an earlier dataset failed
C12_EveryDatasetFetchedOnce ==
    /\ Len(outcomes) <= Len(DATASETS)
    /\ \A i \in 1..Len(outcomes) : outcomes[i].dataset = DATASETS[i]
    /\ Len(outcomes) = (IF pc \in {"save", "process", "by_day", "pause"}
                        THEN ds ELSE ds - 1)
    /\ pc = "end" => Len(outcomes) = Len(DATASETS)
    /\ pc = "pause" /\ outcomes[ds].fetched =>
          calls = <<"save_dataset", "process_traffic_data", "save_data_by_day">>

\* the first dataset failed, the second was fetched and processed
C12_Witness ==
    /\ pc = "end"
    /\ FetchFailed(1)
    /\ outcomes[2].fetched
    /\ calls = <<"save_dataset", "process_traffic_data", "save_data_by_day">>

LoopBodyCalls == <<"save_dataset", "process_traffic_data", "save_data_by_day">>

\* C13: after a fetch the loop took as successful, save_dataset is called
\* before process_traffic_data and before save_data_by_day writes any
\* per-day or fallback file, and both are still called when save_dataset
\* wrote nothing
C13_FullResultFirst ==
    /\ SubSeq(LoopBodyCalls, 1, Len(calls)) = calls
    /\ attempts # <<>> => calls = LoopBodyCalls
    /\ organized_data # Unset => calls[1] = "save_dataset"
    /\ pc = "pause" /\ outcomes[ds].fetched => calls = LoopBodyCalls

\* the full-result write failed and a per-day file was written all the same
C13_Witness ==
    /\ pc = "pause"
    /\ outcomes[ds].fetched
    /\ saved = NoPath
    /\ calls = LoopBodyCalls
    /\ \E i \in 1..Len(attempts) : attempts[i].ok

(***************************************************************************)
(* Claims about get_auth_token.                                            *)
(***************************************************************************)
LastEvent(log) == log[Len(log)]

\* C14: each call of get_auth_token sends one request to the token endpoint;
\* on status 200 with an access_token it installs that token in the session
\* and returns it; on every other outcome it returns None, leaves the
\* session credential as it was and hands control back to its caller
C14_OneTokenRequestPerCall ==
    [][ /\ pc = "renew" =>
             LET ev == LastEvent(fetchLog')
             IN  /\ ev.e = "token"
                 /\ session'.posts = session.posts + 1
                 /\ pc' \in {"reget", "fetched"}
                 /\ IF ev.outcome.k = "token"
                    THEN /\ ev.value = ev.outcome.tok
                         /\ session'.Authorization = Bearer(ev.outcome.tok)
                         /\ session'.sets = session.sets + 1
                    ELSE /\ ev.value = PyNone
                         /\ session'.Authorization = session.Authorization
                         /\ session'.sets = session.sets
        /\ pc = "main" =>
             /\ session'.posts = (IF session.sets = 0 THEN 1 ELSE 0)
             /\ pc' = "loop"
        /\ pc \notin {"renew", "main"} => session' = session
      ]_vars

\* one fetch in which a renewal installed its token and a later renewal
\* failed on a transport exception
C14_Witness ==
    \E i, j \in 1..Len(fetchLog) :
        /\ fetchLog[i].e = "token"
        /\ fetchLog[i].outcome = [k |-> "token", tok |-> PyStr(<<"t1">>)]
        /\ fetchLog[j].e = "token"
        /\ fetchLog[j].outcome = [k |-> "exc"]
        /\ fetchLog[j].value = PyNone
        /\ session.Authorization = Bearer(PyStr(<<"t1">>))

(***************************************************************************)
(* Claims about the files of a run.                                        *)
(***************************************************************************)
Extension(filename) == filename[Len(filename)]

\* what a file of the given extension holds when its write completed
KindOf(ext) == IF ext = "json" THEN "json" ELSE "text"

\* C15 as stated: every file of the data directory has the extension of the
\* selected output format and content serialized in that format
C15_EveryFileInSelectedFormat ==
    \A n \in DOMAIN files :
        /\ Extension(n) = OUTPUT_FORMAT
        /\ files[n].kind = KindOf(OUTPUT_FORMAT)

\* the write attempt of the fallback for a payload of unexpected shape
IsUnexpectedFile(filename) == filename[3] = "unexpected"

\* C15: the per-day files and the raw-text fallback of save_data_by_day have
\* the extension and serialization of the selected output format; the
\* full-result file of save_dataset is a .csv file when the payload is the
\* csv_text wrapper and a .json file otherwise, whatever the selected
\* format; the fallback for an unexpected shape is always a .json file
C15_FormatByWriter ==
    /\ saved # NoPath =>
          /\ Extension(saved) = (IF HasKey(data, K_csv_text) THEN "csv" ELSE "json")
          /\ files[saved].kind = KindOf(Extension(saved))
    /\ \A i \in 1..Len(attempts) :
          /\ Extension(attempts[i].name) =
                (IF IsUnexpectedFile(attempts[i].name) THEN "json" ELSE OUTPUT_FORMAT)
          /\ attempts[i].ok =>
                files[attempts[i].name].kind = KindOf(Extension(attempts[i].name))

\* CSV output selected: the full result was written as .json and a per-day
\* file as .csv
C15_Witness ==
    /\ OUTPUT_FORMAT = OUTPUT_FORMAT_CSV
    /\ pc = "pause"
    /\ saved # NoPath
    /\ Extension(saved) = "json"
    /\ \E i \in 1..Len(attempts) :
          attempts[i].ok /\ Extension(attempts[i].name) = "csv"

(***************************************************************************)
(* Claims about the records process_csv_response builds in JSON mode.      *)
(***************************************************************************)
\* the rows the csv reader gives for the text of the call
RowsOfArg == csv_reader(strip(arg)).rows

\* the call was made in JSON mode on text whose rows the reader reads
\* without error and whose first row, the header row, is not empty
JsonCallWithHeader ==
    /\ pc = "returned"
    /\ OUTPUT_FORMAT = OUTPUT_FORMAT_JSON
    /\ ~csv_reader(strip(arg)).err
    /\ RowsOfArg # <<>>
    /\ Head(RowsOfArg) # <<>>

\* the data rows that are not empty and have as many cells as the header
IsMatchingRow(row) == row # <<>> /\ Len(row) = Len(Head(RowsOfArg))
MatchingRows == SelectSeq(Tail(RowsOfArg), IsMatchingRow)

\* C16 as stated: one record per matching data row, in file order, and the
\* record of a row maps the i-th header to the row's i-th cell
C16_RecordPerMatchingRow ==
    JsonCallWithHeader =>
        /\ ret.t = "list"
        /\ Len(ret.e) = Len(MatchingRows)
        /\ \A n \in 1..Len(MatchingRows) : \A i \in 1..Len(Head(RowsOfArg)) :
              /\ HasKey(ret.e[n], Head(RowsOfArg)[i])
              /\ GetKey(ret.e[n], Head(RowsOfArg)[i]) = PyStr(MatchingRows[n][i])

\* the last column whose trimmed header equals that of column i
LastColumnNamedAs(i) ==
    LET headers == Head(RowsOfArg)
        same == {j \in 1..Len(headers) : strip(headers[j]) = strip(headers[i])}
    IN  CHOOSE j \in same : \A k \in same : k <= j

\* C16: one record per matching data row, in file order; the record of a
\* row maps each trimmed header to the trimmed cell of the last column
\* carrying that header, and has no other key
C16_RecordPerMatchingRowTrimmed ==
    JsonCallWithHeader =>
        /\ ret.t = "list"
        /\ Len(ret.e) = Len(MatchingRows)
        /\ \A n \in 1..Len(MatchingRows) :
              /\ \A i \in 1..Len(Head(RowsOfArg)) :
                    /\ HasKey(ret.e[n], strip(Head(RowsOfArg)[i]))
                    /\ GetKey(ret.e[n], strip(Head(RowsOfArg)[i]))
                          = PyStr(strip(MatchingRows[n][LastColumnNamedAs(i)]))
              /\ \A k \in 1..Len(ret.e[n].kv) :
                    \E i \in 1..Len(Head(RowsOfArg)) :
                        ret.e[n].kv[k][1] = strip(Head(RowsOfArg)[i])

\* a row narrower or wider than the header was skipped and a later row gave
\* a record
C16_Witness ==
    /\ JsonCallWithHeader
    /\ Len(Tail(RowsOfArg)) = 2
    /\ ~IsMatchingRow(RowsOfArg[2])
    /\ RowsOfArg[2] # <<>>
    /\ Len(ret.e) = 1
    /\ GetKey(ret.e[1], strip(Head(RowsOfArg)[1])) = PyStr(strip(RowsOfArg[3][1]))

(***************************************************************************)
(* Claims about responses that do not give structured records.             *)
(***************************************************************************)
\* fetch_dataset returned a payload that is neither a list of records nor
\* the csv_text wrapper of delimited text
Unclassified(payload) ==
    /\ payload.t \notin {"none", "list"}
    /\ ~HasKey(payload, K_csv_text)

IsFallbackFile(filename) == filename[3] \in {"raw", "unexpected"}

\* C17: when the fetch of a dataset ended with a 200 response whose payload
\* is not a record list, the dataset is counted as fetched, save_dataset is
\* called for its full result and save_data_by_day attempts a fallback file
\* with the raw or unexpected infix
C17_DegradedPayloadKept ==
    pc = "pause" /\ outcomes[ds].end = "200" /\ Unclassified(data) =>
        /\ outcomes[ds].fetched
        /\ calls = LoopBodyCalls
        /\ \E i \in 1..Len(attempts) : IsFallbackFile(attempts[i].name)

(***************************************************************************)
(* Claims about the order of the records in a bucket.                      *)
(***************************************************************************)
\* C18: each bucket of process_traffic_data's result is the subsequence of
\* the input list made of the records whose datum has the bucket's day-key,
\* in the order of the input
C18_BucketIsSubsequence ==
    (pc # "call" /\ arg.t = "list") =>
        LET kv == ret.result.kv
        IN  \A b \in 1..Len(kv) :
                LET InBucket(x) ==
                        /\ ~Skippable(x)
                        /\ DayKeyOf(GetKey(x, K_datum).s) = kv[b][1]
                IN  kv[b][2].e = SelectSeq(arg.e, InBucket)

\* two different records of one day, with a record of another day between
\* them in the input, are in their bucket in input order
C18_Witness ==
    /\ pc # "call"
    /\ arg.t = "list"
    /\ Len(arg.e) = 3
    /\ \E b, c \in 1..Len(ret.result.kv) :
          /\ b # c
          /\ ret.result.kv[b][2].e = <<arg.e[1], arg.e[3]>>
          /\ ret.result.kv[c][2].e = <<arg.e[2]>>
          /\ arg.e[1] # arg.e[3]

(***************************************************************************)
(* Claims about the session credential over a run.                         *)
(***************************************************************************)
\* C19: over the whole run set_auth_token is executed at most twice, once
\* for the initial installation and once more for a renewal
C19_AtMostTwoInstallations == session.sets <= 2

(***************************************************************************)
(* Claims about the loop of save_data_by_day over the day-keys.            *)
(***************************************************************************)
\* save_data_by_day ran its loop over the day-keys: the result of the
\* partitioning has none of the three wrapper keys
PerDayLoopRan ==
    /\ pc = "pause"
    /\ calls = LoopBodyCalls
    /\ organized_data.t = "dict"
    /\ ~HasKey(organized_data, K_csv_text)
    /\ ~HasKey(organized_data, K_raw_text)
    /\ ~HasKey(organized_data, K_unexpected_format)

\* what the file of a day holds after a write that completed
DayContent(bucket) ==
    IF OUTPUT_FORMAT = OUTPUT_FORMAT_JSON
    THEN JsonContent(bucket)
    ELSE TextContent(DayCsv(bucket.e).txt)

\* C20: the loop attempts one write per day-key, in order and under the
\* day-key's file name, whichever of the writes failed, and the file of
\* each day-key whose write did not fail holds that day's records
C20_FailedWriteDoesNotAbort ==
    PerDayLoopRan =>
        LET kv == organized_data.kv
        IN  /\ Len(attempts) = Len(kv)
            /\ \A i \in 1..Len(kv) :
                  /\ attempts[i].name =
                        FileName(DATASETS[ds], replace(kv[i][1], "/", "-"),
                                 OUTPUT_FORMAT)
                  /\ (attempts[i].ok
                      /\ \A j \in (i + 1)..Len(kv) :
                            attempts[j].name # attempts[i].name)
                     => /\ attempts[i].name \in DOMAIN files
                        /\ files[attempts[i].name] = DayContent(kv[i][2])

\* the write of the first day-key failed and the file of the second was
\* written
C20_Witness ==
    /\ PerDayLoopRan
    /\ Len(attempts) = 2
    /\ ~attempts[1].ok
    /\ attempts[2].ok
    /\ attempts[2].name \in DOMAIN files
    /\ attempts[1].name \notin DOMAIN files

(***************************************************************************)
(* Claims about the result flag and the full-result files.                 *)
(***************************************************************************)
\* C21: when fetch_and_save_all_datasets returns True, save_dataset wrote
\* the full-result file of at least one dataset during the run
C21_SuccessMeansSaved ==
    pc = "end" /\ success =>
        \E i \in 1..Len(saved_paths) : saved_paths[i] # NoPath

(***************************************************************************)
(* Claims about the end of fetch_dataset's retry loop.                     *)
(***************************************************************************)
\* the passes of the retry loop the current call has started: each begins
\* with the request of line 179
Iterations == Cardinality(EventsOf(fetchLog, {"get"}))

\* C22: whatever the server answers, a call of fetch_dataset starts at most
\* 3 passes of its retry loop, its counter never exceeds 3, the loop is
\* entered again only with the counter below 3, and every pass that did not
\* return has incremented the counter
C22_RetryLoopBounded ==
    /\ retry_count <= max_retries
    /\ Iterations <= max_retries
    /\ pc = "get" => retry_count < max_retries /\ Iterations = retry_count
    /\ pc \in {"renew", "reget"} => Iterations = retry_count + 1
    /\ pc = "fetched" => Iterations >= 1

\* three passes, each answered 401, renewed and failing on the re-issued
\* request, after which the call has returned None
C22_Witness ==
    /\ pc = "fetched"
    /\ Iterations = 3
    /\ Cardinality(EventsOf(fetchLog, {"token"})) = 3
    /\ Cardinality(EventsOf(fetchLog, {"reget"})) = 3
    /\ retry_count = 3
    /\ data = PyNone

(***************************************************************************)
(* Claims about save_data_by_day on the result of process_traffic_data.    *)
(***************************************************************************)
\* process_traffic_data was called on a list and save_data_by_day on its
\* result
SavedPartitionOfList == pc = "saved" /\ arg.t = "list"

\* C23: the writes save_data_by_day attempts for the day-keys of one result
\* go to different file names, one per day-key
C23_DistinctFilePerDayKey ==
    SavedPartitionOfList =>
        \A i, j \in 1..Len(attempts) :
            i # j => attempts[i].name # attempts[j].name

\* the three keys by which save_data_by_day recognises a wrapper
WrapperKeys == {K_csv_text, K_raw_text, K_unexpected_format}

\* C24: save_data_by_day on the day-keyed result of a record list attempts
\* one per-day file for each day-key, whatever the day-keys are, and a
\* fallback or no file only for the wrappers process_traffic_data returns
\* for input that is not a list
C24_PerDayBranchForRecordLists ==
    pc = "saved" =>
        IF arg.t = "list"
        THEN /\ Len(attempts) = Len(organized_data.kv)
             /\ \A i \in 1..Len(attempts) :
                   attempts[i].name =
                       FileName(DATASETS[ds],
                                replace(organized_data.kv[i][1], "/", "-"),
                                OUTPUT_FORMAT)
        ELSE \E k \in WrapperKeys : HasKey(organized_data, k)

(***************************************************************************)
(* Claims about what a failed token acquisition leaves behind.             *)
(***************************************************************************)
\* C25: a call of get_auth_token whose result its caller takes as a failure
\* (None or another falsy value) leaves the Authorization header of the
\* session as it was before the call
C25_FailedRenewalKeepsCredential ==
    [][ (pc = "renew" /\ ~Truthy(LastEvent(fetchLog').value))
            => session'.Authorization = session.Authorization ]_vars

====
